---- MODULE Spec2Model ----
(***************************************************************************)
(* A model of the OpLog of loro-internal (crates/loro-internal/src/        *)
(* oplog.rs): the history of changes, the causal DAG (AppDag) and the      *)
(* pending buffer, with import_local_change and import_remote_changes      *)
(* translated statement by statement.                                      *)
(*                                                                         *)
(* A change is modelled by its id, deps, lamport, timestamp and content    *)
(* length; the content of its ops lives in the arena and does not decide   *)
(* any counter, lamport or DAG computation.                                *)
(*                                                                         *)
(* Spec is one OpLog whose caller passes any change or batch; SpecDeep is  *)
(* the same with more calls of smaller changes; SpecNet is two replicas    *)
(* that commit changes on top of their frontiers, deliver them to each     *)
(* other and run iter_from_lca_causally.  The DAG, the version vector and  *)
(* the RleVec live outside oplog.rs and follow their description; a lookup *)
(* of an id that the DAG does not hold is a panic ("DagPanic").            *)
(***************************************************************************)
EXTENDS Integers, Sequences, FiniteSets, TLC

VARIABLES
    oplog,        \* the OpLog under test (a record, see EmptyOpLog)
    call,         \* the last call and its arguments
    before,       \* the OpLog as it was when the last call was made
    result,       \* what the last call returned
    debug_build,  \* cfg!(debug_assertions) of the build
    ncalls,       \* number of calls made so far
    peer_oplog,   \* the OpLog of a second replica
    history,      \* the changes the two replicas have committed
    imported,     \* per replica, the changes it has imported successfully
    iter          \* the last run of iter_from_lca_causally

netvars == <<peer_oplog, history, imported, iter>>
vars == <<oplog, call, before, result, debug_build, ncalls, netvars>>

(***************************************************************************)
(* Bounds of the model.                                                    *)
(***************************************************************************)
\* ids of imported changes have counters 0..MaxCounter
MaxCounter == 2
\* a change holds 1..MaxLen atoms
MaxLen == 2
\* the ids a caller names in deps have counters 0..MaxDepCounter
MaxDepCounter == 0
\* the lamport a caller gives a change is in 0..MaxLamport
MaxLamport == 2
\* a remote batch holds at most MaxBatch changes
MaxBatch == 1
\* at most MaxPending changes are buffered in pending_changes
MaxPending == 2
\* the caller makes at most MaxCalls import calls
MaxCalls == 2

\* the caller of the second specification makes at most MaxDeepCalls calls
MaxDeepCalls == 3
\* a replica commits changes while its counter is at most MaxNetCounter
MaxNetCounter == 2
\* a delivered batch holds at most MaxNetBatch changes
MaxNetBatch == 3
\* the iterator is followed for at most MaxIterSteps steps
MaxIterSteps == 8
\* a replica that syncs commits changes while its counter is at most
\* MaxSyncCounter
MaxSyncCounter == 3
\* the replicas that sync commit at most MaxSyncChanges changes together
MaxSyncChanges == 3

\* the caller of SpecClone stops after MaxCloneCalls calls
MaxCloneCalls == 4

\* the deps of SpecAhead name ops up to counter MaxAheadDepCounter
MaxAheadDepCounter == 1

Peers == {1, 2}
Timestamps == {0, 1}

(***************************************************************************)
(* Identity and version primitives.                                        *)
(***************************************************************************)
NewID(p, c) == [peer |-> p, counter |-> c]

Max(a, b) == IF a >= b THEN a ELSE b
Min(a, b) == IF a <= b THEN a ELSE b

RECURSIVE SumSeq(_)
SumSeq(s) == IF s = <<>> THEN 0 ELSE Head(s) + SumSeq(Tail(s))

SeqToSet(s) == {s[i] : i \in 1 .. Len(s)}

\* VersionVector: a map PeerID -> Counter; an absent peer reads as 0.
EmptyVV == <<>>
VVGet(vv, p) == IF p \in DOMAIN vv THEN vv[p] ELSE 0
VVSet(vv, p, c) == [q \in (DOMAIN vv) \cup {p} |-> IF q = p THEN c ELSE vv[q]]
IncludesId(vv, id) == id.counter < VVGet(vv, id.peer)
ExtendToIncludeLastId(vv, id) ==
    IF VVGet(vv, id.peer) < id.counter + 1
    THEN VVSet(vv, id.peer, id.counter + 1)
    ELSE vv
VVMerge(a, b) ==
    [q \in (DOMAIN a) \cup (DOMAIN b) |-> Max(VVGet(a, q), VVGet(b, q))]

(***************************************************************************)
(* Changes.                                                                *)
(***************************************************************************)
ContentLen(c) == c.len
IdLast(c) == NewID(c.id.peer, c.id.counter + ContentLen(c) - 1)
CtrEnd(c) == c.id.counter + ContentLen(c)
LamportEnd(c) == c.lamport + ContentLen(c)

\* Change as an element of an RleVec: mergeable with the run before it.
ChangeIsMergable(a, b) ==
    /\ a.id.peer = b.id.peer
    /\ a.timestamp = b.timestamp
    /\ CtrEnd(a) = b.id.counter
    /\ LamportEnd(a) = b.lamport
    /\ b.deps = <<IdLast(a)>>
ChangeMerge(a, b) == [a EXCEPT !.len = a.len + b.len]

PushChange(s, c) ==
    IF s # <<>> /\ ChangeIsMergable(s[Len(s)], c)
    THEN [s EXCEPT ![Len(s)] = ChangeMerge(s[Len(s)], c)]
    ELSE Append(s, c)

\* RleVec::atom_len of a vector of changes
ChangesAtomLen(s) == SumSeq([i \in 1 .. Len(s) |-> s[i].len])

(***************************************************************************)
(* AppDag.                                                                 *)
(***************************************************************************)
NodeIsMergable(a, b) ==
    /\ a.peer = b.peer
    /\ a.cnt + a.len = b.cnt
    /\ a.lamport + a.len = b.lamport
    /\ b.deps = <<NewID(a.peer, a.cnt + a.len - 1)>>

PushNode(s, n) ==
    IF s # <<>> /\ NodeIsMergable(s[Len(s)], n)
    THEN [s EXCEPT ![Len(s)] = [@ EXCEPT !.len = @ + n.len]]
    ELSE Append(s, n)

NodesOf(dag, p) == IF p \in DOMAIN dag.map THEN dag.map[p] ELSE <<>>
ChangesOf(log, p) == IF p \in DOMAIN log.changes THEN log.changes[p] ELSE <<>>

\* RleVec::get_by_atom_index on a vector of DAG nodes: the merged index of
\* the node that holds atom n, 0 when there is none.  The atom total itself
\* is answered with the last node (the one-past-end sentinel).
RECURSIVE NodeIndexFrom(_, _, _)
NodeIndexFrom(s, i, n) ==
    IF i > Len(s) THEN 0
    ELSE IF n < s[i].len \/ (i = Len(s) /\ n = s[i].len) THEN i
    ELSE NodeIndexFrom(s, i + 1, n - s[i].len)
NodeIndex(s, n) == NodeIndexFrom(s, 1, n)

\* the DAG holds a node for the id (the lookup of the id does not fail)
DagHolds(dag, id) == NodeIndex(NodesOf(dag, id.peer), id.counter) # 0
DagHoldsAll(dag, f) == \A i \in 1 .. Len(f) : DagHolds(dag, f[i])

\* The version at one id: the vv stored in its node, raised to the id.
IdToVV(dag, id) ==
    LET ns == NodesOf(dag, id.peer)
        i == NodeIndex(ns, id.counter)
    IN  ExtendToIncludeLastId(ns[i].vv, id)

\* frontiers_to_im_vv, for ids the DAG holds
RECURSIVE FrontiersToImVV(_, _)
FrontiersToImVV(dag, f) ==
    IF f = <<>> THEN EmptyVV
    ELSE VVMerge(IdToVV(dag, Head(f)), FrontiersToImVV(dag, Tail(f)))

\* lamport of one id, read from its node
IdToLamport(dag, id) ==
    LET ns == NodesOf(dag, id.peer)
        i == NodeIndex(ns, id.counter)
        start == SumSeq([j \in 1 .. i - 1 |-> ns[j].len])
    IN  ns[i].lamport + (id.counter - start)

\* frontiers_to_next_lamport, for ids the DAG holds
RECURSIVE FrontiersToNextLamport(_, _)
FrontiersToNextLamport(dag, f) ==
    IF f = <<>> THEN 0
    ELSE Max(IdToLamport(dag, Head(f)) + 1, FrontiersToNextLamport(dag, Tail(f)))

\* vv_to_frontiers: the last id of every peer, less those that another
\* candidate has among its ancestors.  The ancestors are looked up only
\* when there is more than one candidate.
LastIds(vv) == {NewID(p, vv[p] - 1) : p \in {q \in DOMAIN vv : vv[q] > 0}}
VVToFrontiersDefined(dag, vv) ==
    Cardinality(LastIds(vv)) > 1 => \A x \in LastIds(vv) : DagHolds(dag, x)
VVToFrontiers(dag, vv) ==
    LET cand == LastIds(vv)
    IN  IF Cardinality(cand) <= 1 THEN cand
        ELSE {x \in cand : ~ \E y \in cand \ {x} : IncludesId(IdToVV(dag, y), x)}

\* Frontiers::retain_non_included, filter_peer and push
RetainNonIncluded(f, deps) == {x \in f : x \notin SeqToSet(deps)}
FilterPeer(f, p) == {x \in f : x.peer # p}
FrontiersPush(f, id) == f \cup {id}

(***************************************************************************)
(* OpLog.                                                                  *)
(***************************************************************************)
EmptyDag == [map |-> <<>>, frontiers |-> {}, vv |-> EmptyVV]

EmptyOpLog ==
    [dag |-> EmptyDag,
     changes |-> <<>>,
     next_lamport |-> 0,
     latest_timestamp |-> 0,
     pending_changes |-> <<>>]

MapSet(m, k, v) == [q \in (DOMAIN m) \cup {k} |-> IF q = k THEN v ELSE m[q]]

\* the duplicate check with >= for >: a fresh id is taken for a used one
check_id_is_not_duplicated_ge(log, id) ==
    ~ (VVGet(log.dag.vv, id.peer) >= id.counter)

check_id_is_not_duplicated(log, id) == ~ (VVGet(log.dag.vv, id.peer) > id.counter)

\* check_deps: 0 when every dep is included, else the index of the first
\* dep that is not
RECURSIVE FirstMissingFrom(_, _, _)
FirstMissingFrom(vv, deps, i) ==
    IF i > Len(deps) THEN 0
    ELSE IF ~ IncludesId(vv, deps[i]) THEN i
    ELSE FirstMissingFrom(vv, deps, i + 1)
\* the dep check reporting the last missing dep instead of the first
check_deps_last(log, deps) ==
    LET missing == {i \in 1 .. Len(deps) : ~ IncludesId(log.dag.vv, deps[i])}
    IN  IF missing = {} THEN 0 ELSE CHOOSE i \in missing : \A j \in missing : j <= i

check_deps(log, deps) == FirstMissingFrom(log.dag.vv, deps, 1)

PendingOf(log, id) ==
    IF id \in DOMAIN log.pending_changes THEN log.pending_changes[id] ELSE <<>>

PendingPush(log, id, c) ==
    [log EXCEPT !.pending_changes = MapSet(@, id, Append(PendingOf(log, id), c))]

PendingSize(log) ==
    LET RECURSIVE Total(_)
        Total(S) == IF S = {} THEN 0
                    ELSE LET k == CHOOSE x \in S : TRUE
                         IN  Len(log.pending_changes[k]) + Total(S \ {k})
    IN  Total(DOMAIN log.pending_changes)


\* the DAG step with the length of the change as the length of the node
PushToDag_short_len(log, c) ==
    LET p == c.id.peer
        len == ContentLen(c)
    IN  IF Len(c.deps) = 1 /\ c.deps[1].peer = p
        THEN IF p \notin DOMAIN log.dag.map \/ log.dag.map[p] = <<>>
             THEN [log |-> log, panic |-> "Panic"]
             ELSE LET nodes == log.dag.map[p]
                      last == nodes[Len(nodes)]
                  IN  IF \/ last.peer # p
                         \/ last.cnt + last.len # c.id.counter
                         \/ last.lamport + last.len # c.lamport
                      THEN [log |-> log, panic |-> "Panic"]
                      ELSE [log |->
                               [log EXCEPT
                                  !.dag.map[p][Len(nodes)].len = len,
                                  !.changes =
                                      MapSet(@, p, PushChange(ChangesOf(log, p), c))],
                            panic |-> ""]
        ELSE IF ~ DagHoldsAll(log.dag, c.deps)
             THEN [log |-> log, panic |-> "DagPanic"]
             ELSE LET vv == FrontiersToImVV(log.dag, c.deps)
                      node == [peer |-> p, cnt |-> c.id.counter,
                               lamport |-> c.lamport, deps |-> c.deps,
                               vv |-> vv, len |-> len]
                  IN  [log |->
                          [log EXCEPT
                             !.dag.map =
                                 MapSet(@, p, PushNode(NodesOf(log.dag, p), node)),
                             !.changes =
                                 MapSet(@, p, PushChange(ChangesOf(log, p), c))],
                       panic |-> ""]

\* Lines 163-187 (and their copy, 426-450): extend the peer's last DAG node
\* or push a new one, then store the change.  panic is "Panic" for an unwrap
\* of a missing node list or a failed assert_eq of these lines, "DagPanic"
\* for a dep that frontiers_to_im_vv does not find in the DAG, else "".
PushToDag(log, c) ==
    LET p == c.id.peer
        len == ContentLen(c)
    IN  IF Len(c.deps) = 1 /\ c.deps[1].peer = p
        THEN IF p \notin DOMAIN log.dag.map \/ log.dag.map[p] = <<>>
             THEN [log |-> log, panic |-> "Panic"]
             ELSE LET nodes == log.dag.map[p]
                      last == nodes[Len(nodes)]
                  IN  IF \/ last.peer # p
                         \/ last.cnt + last.len # c.id.counter
                         \/ last.lamport + last.len # c.lamport
                      THEN [log |-> log, panic |-> "Panic"]
                      ELSE [log |->
                               [log EXCEPT
                                  !.dag.map[p][Len(nodes)].len =
                                      c.id.counter + len - last.cnt,
                                  !.changes =
                                      MapSet(@, p, PushChange(ChangesOf(log, p), c))],
                            panic |-> ""]
        ELSE IF ~ DagHoldsAll(log.dag, c.deps)
             THEN [log |-> log, panic |-> "DagPanic"]
             ELSE LET vv == FrontiersToImVV(log.dag, c.deps)
                      node == [peer |-> p, cnt |-> c.id.counter,
                               lamport |-> c.lamport, deps |-> c.deps,
                               vv |-> vv, len |-> len]
                  IN  [log |->
                          [log EXCEPT
                             !.dag.map =
                                 MapSet(@, p, PushNode(NodesOf(log.dag, p), node)),
                             !.changes =
                                 MapSet(@, p, PushChange(ChangesOf(log, p), c))],
                       panic |-> ""]

\* the advance step without retain_non_included: the deps stay in the frontiers
AdvanceLocal_keep_deps(log, c) ==
    [log EXCEPT
       !.next_lamport = Max(@, LamportEnd(c)),
       !.latest_timestamp = Max(@, c.timestamp),
       !.dag.vv = ExtendToIncludeLastId(@, IdLast(c)),
       !.dag.frontiers = FrontiersPush(FilterPeer(@, c.id.peer), IdLast(c))]

\* Lines 157-162: the clocks, the version vector and the frontiers
AdvanceLocal(log, c) ==
    [log EXCEPT
       !.next_lamport = Max(@, LamportEnd(c)),
       !.latest_timestamp = Max(@, c.timestamp),
       !.dag.vv = ExtendToIncludeLastId(@, IdLast(c)),
       !.dag.frontiers =
           FrontiersPush(FilterPeer(RetainNonIncluded(@, c.deps), c.id.peer),
                         IdLast(c))]

import_local_change(log, c, dbg) ==
    IF ~ check_id_is_not_duplicated(log, c.id)
    THEN [log |-> log, result |-> "UsedOpID"]
    ELSE LET m == check_deps(log, c.deps)
         IN  IF m # 0
             THEN [log |-> PendingPush(log, c.deps[m], c), result |-> "MissingDep"]
             ELSE IF dbg /\ ~ DagHoldsAll(log.dag, c.deps)
             THEN [log |-> log, result |-> "DagPanic"]
             ELSE IF dbg /\ FrontiersToNextLamport(log.dag, c.deps) # c.lamport
             THEN [log |-> log, result |-> "DebugPanic"]
             ELSE LET r == PushToDag(AdvanceLocal(log, c), c)
                  IN  [log |-> r.log,
                       result |-> IF r.panic = "" THEN "Ok" ELSE r.panic]

(***************************************************************************)
(* import_remote_changes.  A batch is a map PeerID -> sequence of changes; *)
(* order is the order in which the hash map hands out its peers.           *)
(***************************************************************************)
BatchOf(batch, p) == IF p \in DOMAIN batch THEN batch[p] ELSE <<>>

\* Lines 361-378: the batch can be appended
Preflight(log, batch) ==
    \A p \in DOMAIN batch :
        \/ batch[p] = <<>>
        \/ p \notin DOMAIN log.dag.vv
        \/ ~ (batch[p][1].id.counter > log.dag.vv[p])

\* the clocks assigned from the last change, without max
AdvanceRemote_assign(log, last_change) ==
    [log EXCEPT
       !.dag.vv = ExtendToIncludeLastId(@, IdLast(last_change)),
       !.next_lamport = LamportEnd(last_change),
       !.latest_timestamp = last_change.timestamp]

\* Lines 390-394: the version vector and the clocks, from the last change
AdvanceRemote(log, last_change) ==
    [log EXCEPT
       !.dag.vv = ExtendToIncludeLastId(@, IdLast(last_change)),
       !.next_lamport = Max(@, LamportEnd(last_change)),
       !.latest_timestamp = Max(@, last_change.timestamp)]

\* no truncation: every change of the batch is applied
Untruncated_none(cs, cur_end_cnt) == cs

\* Lines 395-418: the changes of one peer that are not truncated
RECURSIVE Untruncated(_, _)
Untruncated(cs, cur_end_cnt) ==
    IF cs = <<>> THEN <<>>
    ELSE IF Head(cs).id.counter < cur_end_cnt
         THEN Untruncated(Tail(cs), cur_end_cnt)
         ELSE <<Head(cs)>> \o Untruncated(Tail(cs), cur_end_cnt)

\* Lines 385-419: one pass over the batch; gives the log with vv and clocks
\* raised and the array of changes to apply
RECURSIVE Collect(_, _, _, _)
Collect(log, batch, order, arr) ==
    IF order = <<>> THEN [log |-> log, arr |-> arr]
    ELSE LET p == Head(order)
             cs == batch[p]
         IN  IF cs = <<>>
             THEN Collect(log, batch, Tail(order), arr)
             ELSE LET cur_end_cnt == ChangesAtomLen(ChangesOf(log, p))
                  IN  Collect(AdvanceRemote(log, cs[Len(cs)]), batch, Tail(order),
                              arr \o Untruncated(cs, cur_end_cnt))

\* Line 423: sort_by_key(|x| x.lamport), a stable sort
RECURSIVE InsertByLamport(_, _)
InsertByLamport(sorted, c) ==
    IF sorted = <<>> THEN <<c>>
    ELSE IF sorted[Len(sorted)].lamport <= c.lamport THEN Append(sorted, c)
    ELSE Append(InsertByLamport(SubSeq(sorted, 1, Len(sorted) - 1), c),
                sorted[Len(sorted)])
RECURSIVE SortByLamportFrom(_, _)
SortByLamportFrom(arr, sorted) ==
    IF arr = <<>> THEN sorted
    ELSE SortByLamportFrom(Tail(arr), InsertByLamport(sorted, Head(arr)))
SortByLamport(arr) == SortByLamportFrom(arr, <<>>)

\* Lines 425-451: apply the sorted changes; stops at the first panic
RECURSIVE ApplyAll(_, _)
ApplyAll(log, arr) ==
    IF arr = <<>> THEN [log |-> log, panic |-> ""]
    ELSE LET r == PushToDag(log, Head(arr))
         IN  IF r.panic = "" THEN ApplyAll(r.log, Tail(arr)) ELSE r

import_remote_changes(log, batch, order) ==
    IF ~ Preflight(log, batch)
    THEN [log |-> log, result |-> "NotAppliable"]
    ELSE LET col == Collect(log, batch, order, <<>>)
             r == ApplyAll(col.log, SortByLamport(col.arr))
         IN  IF r.panic # ""
             THEN [log |-> r.log, result |-> r.panic]
             ELSE IF ~ VVToFrontiersDefined(r.log.dag, r.log.dag.vv)
             THEN [log |-> r.log, result |-> "DagPanic"]
             ELSE [log |-> [r.log EXCEPT
                              !.dag.frontiers = VVToFrontiers(r.log.dag, r.log.dag.vv)],
                   result |-> "Ok"]

(***************************************************************************)
(* Queries.                                                                *)
(***************************************************************************)
\* Lines 460-471: the change that holds an id.  The last change is unwrapped
\* and so is the element that get_by_atom_index finds.
lookup_change(log, id) ==
    IF id.peer \notin DOMAIN log.changes THEN [kind |-> "None"]
    ELSE LET changes == log.changes[id.peer]
         IN  IF changes = <<>> THEN [kind |-> "Panic"]
             ELSE IF id.counter <= IdLast(changes[Len(changes)]).counter
             THEN LET i == NodeIndex(changes, id.counter)
                  IN  IF i = 0 THEN [kind |-> "Panic"]
                      ELSE [kind |-> "Some", change |-> changes[i]]
             ELSE [kind |-> "None"]

\* Lines 238-261: per peer that the log has ahead of from, the stored
\* changes from the one that holds from[peer] on, each one whole
export_changes_from(log, from) ==
    LET temp(p) ==
            IF p \notin DOMAIN log.changes THEN <<>>
            ELSE LET peer_changes == log.changes[p]
                     i == NodeIndex(peer_changes, VVGet(from, p))
                 IN  IF i = 0 THEN <<>>
                     ELSE SubSeq(peer_changes, i, Len(peer_changes))
    IN  [p \in {q \in DOMAIN log.dag.vv :
                   log.dag.vv[q] > VVGet(from, q) /\ temp(q) # <<>>} |-> temp(p)]

\* Lines 487-515: the changes that f is called on, peer by peer.  The order
\* in which the hash map hands out the peers does not show in the result.
RECURSIVE VisitFrom(_, _, _)
VisitFrom(changes, i, to_cnt) ==
    IF i > Len(changes) THEN <<>>
    ELSE IF changes[i].id.counter >= to_cnt THEN <<>>
    ELSE <<changes[i]>> \o VisitFrom(changes, i + 1, to_cnt)

for_each_change_within(log, a, b) ==
    [peer \in DOMAIN log.changes |->
        LET changes == log.changes[peer]
            from_cnt == Min(VVGet(a, peer), VVGet(b, peer))
            to_cnt == Max(VVGet(a, peer), VVGet(b, peer))
            i == NodeIndex(changes, from_cnt)
        IN  IF VVGet(a, peer) = VVGet(b, peer) \/ i = 0 THEN <<>>
            ELSE VisitFrom(changes, i, to_cnt)]

\* Lines 276-284: the change that get_by_atom_index finds for the counter
get_change_at(log, id) ==
    IF id.peer \notin DOMAIN log.changes THEN [kind |-> "None"]
    ELSE LET peer_changes == log.changes[id.peer]
             i == NodeIndex(peer_changes, id.counter)
         IN  IF i = 0 THEN [kind |-> "None"]
             ELSE [kind |-> "Some", change |-> peer_changes[i]]

(***************************************************************************)
(* The inputs a caller may pass.                                           *)
(***************************************************************************)
IdInputs == {NewID(p, c) : p \in Peers, c \in 0 .. MaxCounter}
DepIdInputs == {NewID(p, c) : p \in Peers, c \in 0 .. MaxDepCounter}

\* Frontiers hold at most one id per peer
DepsInputs ==
    {<<>>} \cup {<<d>> : d \in DepIdInputs}
           \cup {s \in {<<d, e>> : d \in DepIdInputs, e \in DepIdInputs} :
                    s[1].peer # s[2].peer}

ChangeInputs ==
    {[id |-> i, deps |-> d, lamport |-> l, timestamp |-> t, len |-> n] :
        i \in IdInputs, d \in DepsInputs, l \in 0 .. MaxLamport, t \in Timestamps,
        n \in 1 .. MaxLen}

\* the changes of one peer in a batch: sorted by counter and contiguous (the
\* expectation stated at lines 353-354)
RECURSIVE RunsOfLen(_)
RunsOfLen(n) ==
    IF n = 0 THEN {<<>>}
    ELSE {Append(r, c) : r \in RunsOfLen(n - 1), c \in ChangeInputs} 
RunIsContiguous(r) ==
    \A i \in 1 .. Len(r) :
        /\ r[i].id.peer = r[1].id.peer
        /\ i > 1 => r[i].id.counter = CtrEnd(r[i - 1])
RunInputs ==
    {r \in UNION {RunsOfLen(n) : n \in 0 .. MaxBatch} : RunIsContiguous(r)}

\* the size of a batch: its changes, an empty list counting as one
BatchSize(b) ==
    LET RECURSIVE Total(_)
        Total(S) == IF S = {} THEN 0
                    ELSE LET p == CHOOSE x \in S : TRUE
                         IN  Max(1, Len(b[p])) + Total(S \ {p})
    IN  Total(DOMAIN b)

BatchInputs ==
    UNION {{b \in [S -> RunInputs] :
              /\ \A p \in S : \A i \in 1 .. Len(b[p]) : b[p][i].id.peer = p
              /\ BatchSize(b) <= MaxBatch} : S \in SUBSET Peers}

\* the orders in which a hash map over S may hand out its keys
Orders(S) ==
    {o \in [1 .. Cardinality(S) -> S] : \A i, j \in DOMAIN o : i # j => o[i] # o[j]}

(***************************************************************************)
(* The specification: one OpLog and a caller that passes any input.        *)
(***************************************************************************)
NoCall == [kind |-> "none"]
NoIter == [kind |-> "none"]
Replicas == {"a", "b"}

Init ==
    /\ oplog = EmptyOpLog
    /\ call = NoCall
    /\ before = EmptyOpLog
    /\ result = "None"
    /\ debug_build \in BOOLEAN
    /\ ncalls = 0
    /\ peer_oplog = EmptyOpLog
    /\ history = {}
    /\ imported = [r \in Replicas |-> {}]
    /\ iter = NoIter

ImportLocalChange(c) ==
    /\ LET r == import_local_change(oplog, c, debug_build)
       IN  /\ PendingSize(r.log) <= MaxPending
           /\ oplog' = r.log
           /\ result' = r.result
    /\ call' = [kind |-> "import_local_change", change |-> c]
    /\ before' = oplog
    /\ ncalls' = ncalls + 1
    /\ UNCHANGED <<debug_build, netvars>>

ImportRemoteChanges(batch, order) ==
    /\ LET r == import_remote_changes(oplog, batch, order)
       IN  /\ oplog' = r.log
           /\ result' = r.result
    /\ call' = [kind |-> "import_remote_changes", batch |-> batch, order |-> order]
    /\ before' = oplog
    /\ ncalls' = ncalls + 1
    /\ UNCHANGED <<debug_build, netvars>>

\* a panic ends the process; the caller stops after MaxCalls calls
Panicked == result \in {"Panic", "DebugPanic", "DagPanic"}
CanCall == ~ Panicked /\ ncalls < MaxCalls

Next ==
    \/ CanCall /\ \E c \in ChangeInputs : ImportLocalChange(c)
    \/ CanCall /\ \E batch \in BatchInputs : \E order \in Orders(DOMAIN batch) :
                     ImportRemoteChanges(batch, order)

Spec == Init /\ [][Next]_vars

(***************************************************************************)
(* A second caller: more calls, of changes of one atom with one timestamp. *)
(***************************************************************************)
DeepChangeInputs ==
    {c \in ChangeInputs :
        /\ c.len = 1
        /\ c.timestamp = 0
        /\ c.id.counter < MaxDeepCalls - 1
        /\ c.lamport < MaxDeepCalls - 1}

DeepBatchInputs ==
    {b \in BatchInputs :
        \A p \in DOMAIN b : \A i \in 1 .. Len(b[p]) : b[p][i] \in DeepChangeInputs}

CanCallDeep == ~ Panicked /\ ncalls < MaxDeepCalls

NextDeep ==
    \/ CanCallDeep /\ \E c \in DeepChangeInputs : ImportLocalChange(c)
    \/ CanCallDeep /\ \E batch \in DeepBatchInputs :
                         \E order \in Orders(DOMAIN batch) :
                             ImportRemoteChanges(batch, order)

SpecDeep == Init /\ [][NextDeep]_vars

(***************************************************************************)
(* A third caller: batches of up to two changes of one peer, each of one   *)
(* atom.                                                                   *)
(***************************************************************************)
PairRunInputs ==
    {<<c>> : c \in DeepChangeInputs}
        \cup {r \in {<<c, d>> : c \in DeepChangeInputs, d \in DeepChangeInputs} :
                 RunIsContiguous(r)}

PairBatchInputs ==
    UNION {{[q \in {p} |-> r] : r \in {x \in PairRunInputs : x[1].id.peer = p}} :
              p \in Peers}

NextBatch ==
    \/ CanCall /\ \E c \in DeepChangeInputs : ImportLocalChange(c)
    \/ CanCall /\ \E batch \in PairBatchInputs : \E order \in Orders(DOMAIN batch) :
                     ImportRemoteChanges(batch, order)

SpecBatch == Init /\ [][NextBatch]_vars

(***************************************************************************)
(* iter_from_lca_causally (lines 524-601).                                 *)
(***************************************************************************)
\* a set of ids as a list, by peer
RECURSIVE FrontiersSeq(_)
FrontiersSeq(f) ==
    IF f = {} THEN <<>>
    ELSE LET x == CHOOSE y \in f : \A z \in f : y.peer <= z.peer
         IN  <<x>> \o FrontiersSeq(f \ {x})

\* frontiers_to_vv
FrontiersToVV(dag, f) == FrontiersToImVV(dag, FrontiersSeq(f))

\* the ids that are in both versions
VVMeet(a, b) ==
    [p \in {q \in (DOMAIN a) \cap (DOMAIN b) : Min(a[q], b[q]) > 0} |->
        Min(a[p], b[p])]

\* find_common_ancestor: the maximal ids among the common ancestors
FindCommonAncestor(dag, a, b) ==
    VVToFrontiers(dag, VVMeet(FrontiersToVV(dag, a), FrontiersToVV(dag, b)))

\* VersionVector::diff(..).right: per peer the span [lo, hi) that only the
\* right side has
DiffRight(left, right) ==
    [p \in {q \in DOMAIN right : right[q] > VVGet(left, q)} |->
        [lo |-> VVGet(left, p), hi |-> right[p]]]

\* the ids of a diff
SpanIds(diff) ==
    UNION {{NewID(p, c) : c \in diff[p].lo .. diff[p].hi - 1} : p \in DOMAIN diff}

\* iter_causal: the nodes that meet the spans, each after the nodes it
\* depends on, the ready ones by (lamport, peer, counter)
NodeRefs(dag, diff) ==
    {r \in UNION {{[peer |-> p, idx |-> i] : i \in 1 .. Len(NodesOf(dag, p))} :
                     p \in DOMAIN diff} :
        LET n == dag.map[r.peer][r.idx]
        IN  n.cnt < diff[r.peer].hi /\ n.cnt + n.len > diff[r.peer].lo}

NodePreds(dag, r) ==
    LET n == dag.map[r.peer][r.idx]
    IN  {[peer |-> n.deps[i].peer,
          idx |-> NodeIndex(NodesOf(dag, n.deps[i].peer), n.deps[i].counter)] :
            i \in 1 .. Len(n.deps)}
        \cup (IF r.idx > 1 THEN {[peer |-> r.peer, idx |-> r.idx - 1]} ELSE {})

NodeKeyLess(dag, r, q) ==
    LET n == dag.map[r.peer][r.idx]
        m == dag.map[q.peer][q.idx]
    IN  \/ n.lamport < m.lamport
        \/ n.lamport = m.lamport /\ n.peer < m.peer
        \/ n.lamport = m.lamport /\ n.peer = m.peer /\ n.cnt <= m.cnt

RECURSIVE IterCausalFrom(_, _, _)
IterCausalFrom(dag, remaining, out) ==
    LET ready == {r \in remaining : NodePreds(dag, r) \cap remaining = {}}
    IN  IF ready = {} THEN out
        ELSE LET r == CHOOSE x \in ready : \A y \in ready : NodeKeyLess(dag, x, y)
             IN  IterCausalFrom(dag, remaining \ {r},
                                Append(out, dag.map[r.peer][r.idx]))

IterCausal(dag, diff) == IterCausalFrom(dag, NodeRefs(dag, diff), <<>>)

\* VersionVector::extend_to_include_end_id: id is the first id left out
ExtendToIncludeEndId(vv, id) ==
    IF VVGet(vv, id.peer) < id.counter THEN VVSet(vv, id.peer, id.counter) ELSE vv

\* the closure with extend_to_include_last_id in place of
\* extend_to_include_end_id
RECURSIVE IterNext_last_id(_, _, _, _, _, _, _)
IterNext_last_id(log, nodes, cur_cnt, lca_vv, merged_vv, out, vvs) ==
    IF nodes = <<>>
    THEN [out |-> out, vvs |-> vvs, panic |-> FALSE, running |-> FALSE]
    ELSE IF Len(out) >= MaxIterSteps
    THEN [out |-> out, vvs |-> vvs, panic |-> FALSE, running |-> TRUE]
    ELSE LET inner == Head(nodes)
             peer == inner.peer
             cnt == Max(Max(inner.cnt, cur_cnt), VVGet(lca_vv, peer))
             end == Min(inner.cnt + inner.len, VVGet(merged_vv, peer))
             i == NodeIndex(ChangesOf(log, peer), cnt)
         IN  IF i = 0
             THEN [out |-> out, vvs |-> vvs, panic |-> TRUE, running |-> FALSE]
             ELSE LET change == log.changes[peer][i]
                      inner_vv == ExtendToIncludeLastId(VVMerge(EmptyVV, inner.vv),
                                                       change.id)
                  IN  IF CtrEnd(change) < end
                      THEN IterNext_last_id(log, nodes, CtrEnd(change), lca_vv, merged_vv,
                                    Append(out, change), Append(vvs, inner_vv))
                      ELSE IterNext_last_id(log, Tail(nodes), 0, lca_vv, merged_vv,
                                    Append(out, change), Append(vvs, inner_vv))

\* Lines 566-599: the closure that turns the nodes into changes.  It gives
\* the changes yielded, the version vector handed out with each of them,
\* whether an unwrap failed, and whether the iterator was still yielding
\* after MaxIterSteps steps.
RECURSIVE IterNext(_, _, _, _, _, _, _)
IterNext(log, nodes, cur_cnt, lca_vv, merged_vv, out, vvs) ==
    IF nodes = <<>>
    THEN [out |-> out, vvs |-> vvs, panic |-> FALSE, running |-> FALSE]
    ELSE IF Len(out) >= MaxIterSteps
    THEN [out |-> out, vvs |-> vvs, panic |-> FALSE, running |-> TRUE]
    ELSE LET inner == Head(nodes)
             peer == inner.peer
             cnt == Max(Max(inner.cnt, cur_cnt), VVGet(lca_vv, peer))
             end == Min(inner.cnt + inner.len, VVGet(merged_vv, peer))
             i == NodeIndex(ChangesOf(log, peer), cnt)
         IN  IF i = 0
             THEN [out |-> out, vvs |-> vvs, panic |-> TRUE, running |-> FALSE]
             ELSE LET change == log.changes[peer][i]
                      inner_vv == ExtendToIncludeEndId(VVMerge(EmptyVV, inner.vv),
                                                       change.id)
                  IN  IF CtrEnd(change) < end
                      THEN IterNext(log, nodes, CtrEnd(change), lca_vv, merged_vv,
                                    Append(out, change), Append(vvs, inner_vv))
                      ELSE IterNext(log, Tail(nodes), 0, lca_vv, merged_vv,
                                    Append(out, change), Append(vvs, inner_vv))

\* Lines 524-601, with the frontiers computed from the version vectors
iter_from_lca_causally(log, from, to) ==
    LET merged_vv == VVMerge(from, to)
        from_frontiers == VVToFrontiers(log.dag, from)
        to_frontiers == VVToFrontiers(log.dag, to)
        common_ancestors == FindCommonAncestor(log.dag, from_frontiers, to_frontiers)
        common_ancestors_vv == FrontiersToVV(log.dag, common_ancestors)
        diff == DiffRight(common_ancestors_vv, merged_vv)
        r == IterNext(log, IterCausal(log.dag, diff), 0, common_ancestors_vv,
                      merged_vv, <<>>, <<>>)
    IN  [lca_vv |-> common_ancestors_vv, merged_vv |-> merged_vv, diff |-> diff,
         out |-> r.out, vvs |-> r.vvs, panic |-> r.panic, running |-> r.running]

(***************************************************************************)
(* Two replicas that commit changes and deliver them to each other.        *)
(***************************************************************************)
PeerOf(r) == IF r = "a" THEN 1 ELSE 2
LogOf(r) == IF r = "a" THEN oplog ELSE peer_oplog

SetLog(r, log) ==
    IF r = "a" THEN oplog' = log /\ UNCHANGED peer_oplog
    ELSE peer_oplog' = log /\ UNCHANGED oplog

\* lines 214-217
next_id(log, peer) == NewID(peer, VVGet(log.dag.vv, peer))

\* the change a replica commits on top of what it has
NewChange(log, peer, len, ts) ==
    [id |-> next_id(log, peer), deps |-> FrontiersSeq(log.dag.frontiers),
     lamport |-> log.next_lamport, timestamp |-> ts, len |-> len]

CanStep == ~ Panicked /\ iter = NoIter

\* a replica commits a change that ends at counter max or before
CommitWithin(r, len, ts, max) ==
    LET c == NewChange(LogOf(r), PeerOf(r), len, ts)
        res == import_local_change(LogOf(r), c, debug_build)
    IN  /\ CanStep
        /\ CtrEnd(c) <= max
        /\ SetLog(r, res.log)
        /\ result' = res.result
        /\ history' = history \cup {c}
        /\ imported' = IF res.result = "Ok"
                       THEN [imported EXCEPT ![r] = @ \cup {c}] ELSE imported
        /\ UNCHANGED <<call, before, debug_build, ncalls, iter>>

Commit(r, len, ts) == CommitWithin(r, len, ts, MaxNetCounter)

\* the changes of S by one peer, by counter
RECURSIVE RunOf(_, _)
RunOf(S, p) ==
    LET mine == {c \in S : c.id.peer = p}
    IN  IF mine = {} THEN <<>>
        ELSE LET c == CHOOSE x \in mine : \A y \in mine : x.id.counter <= y.id.counter
             IN  <<c>> \o RunOf(S \ {c}, p)

\* the changes of S can be applied to the log: those of every peer follow
\* the log and each other, and every dep is in the log or in S
Admissible(log, S) ==
    \A c \in S :
        /\ \/ c.id.counter = VVGet(log.dag.vv, c.id.peer)
           \/ \E e \in S : e.id.peer = c.id.peer /\ CtrEnd(e) = c.id.counter
        /\ \A i \in 1 .. Len(c.deps) :
               \/ IncludesId(log.dag.vv, c.deps[i])
               \/ \E e \in S : /\ e.id.peer = c.deps[i].peer
                               /\ e.id.counter <= c.deps[i].counter
                               /\ c.deps[i].counter < CtrEnd(e)

\* one change is delivered and imported by import_local_change
DeliverLocal(r, c) ==
    LET res == import_local_change(LogOf(r), c, debug_build)
    IN  /\ CanStep
        /\ c \notin imported[r]
        /\ Admissible(LogOf(r), {c})
        /\ SetLog(r, res.log)
        /\ result' = res.result
        /\ imported' = IF res.result = "Ok"
                       THEN [imported EXCEPT ![r] = @ \cup {c}] ELSE imported
        /\ UNCHANGED <<call, before, debug_build, ncalls, history, iter>>

\* a batch of changes is delivered and imported by import_remote_changes
DeliverRemote(r, S, order) ==
    LET batch == [p \in {c.id.peer : c \in S} |-> RunOf(S, p)]
        res == import_remote_changes(LogOf(r), batch, order)
    IN  /\ CanStep
        /\ S # {}
        /\ Cardinality(S) <= MaxNetBatch
        /\ Admissible(LogOf(r), S)
        /\ SetLog(r, res.log)
        /\ result' = res.result
        /\ imported' = IF res.result = "Ok"
                       THEN [imported EXCEPT ![r] = @ \cup S] ELSE imported
        /\ UNCHANGED <<call, before, debug_build, ncalls, history, iter>>

\* the version vectors below the one of the log that hold, with every id,
\* the ids it depends on
VVTop(vv) ==
    IF DOMAIN vv = {} THEN 0
    ELSE CHOOSE n \in {vv[p] : p \in DOMAIN vv} : \A p \in DOMAIN vv : vv[p] <= n

Versions(log) ==
    {v \in [DOMAIN log.dag.vv -> 0 .. VVTop(log.dag.vv)] :
        /\ \A p \in DOMAIN v : v[p] <= log.dag.vv[p]
        /\ \A p \in DOMAIN v :
               v[p] > 0 =>
                   \A q \in DOMAIN v :
                       VVGet(IdToVV(log.dag, NewID(p, v[p] - 1)), q) <= v[q]}

\* an order of the version vectors: the iterator treats from and to alike
\* (merge and find_common_ancestor are symmetric), so one order of the two
\* is run
VVRank(v) == VVGet(v, 1) * (MaxNetCounter + 1) + VVGet(v, 2)

\* a reader runs the iterator over two versions of a replica and stops
IterFromLca(r, from, to) ==
    /\ CanStep
    /\ VVRank(from) <= VVRank(to)
    /\ iter' = [kind |-> "iter_from_lca_causally", replica |-> r,
                from |-> from, to |-> to,
                run |-> iter_from_lca_causally(LogOf(r), from, to)]
    /\ UNCHANGED <<oplog, call, before, result, debug_build, ncalls,
                   peer_oplog, history, imported>>

NextNet ==
    \/ CanStep /\ \E r \in Replicas, len \in 1 .. MaxLen, ts \in Timestamps :
                     Commit(r, len, ts)
    \/ CanStep /\ \E r \in Replicas : \E c \in history \ imported[r] :
                     DeliverLocal(r, c)
    \/ CanStep /\ \E r \in Replicas : \E S \in SUBSET (history \ imported[r]) :
                     \E order \in Orders({c.id.peer : c \in S}) :
                         DeliverRemote(r, S, order)
    \/ CanStep /\ \E r \in Replicas : \E to \in Versions(LogOf(r)) :
                     \E from \in {v \in Versions(LogOf(r)) : VVRank(v) <= VVRank(to)} :
                         IterFromLca(r, from, to)

SpecNet == Init /\ [][NextNet]_vars

(***************************************************************************)
(* Two replicas that sync with export_changes_from and                     *)
(* import_remote_changes.  A sync is the last step of a behaviour.         *)
(***************************************************************************)
Other(r) == IF r = "a" THEN "b" ELSE "a"

VVLeq(x, y) == \A p \in DOMAIN x : x[p] <= VVGet(y, p)

CanSync == CanStep /\ call = NoCall

\* replica to imports what replica from exports for the version of to
ExportImport(from, to, order) ==
    LET batch == export_changes_from(LogOf(from), LogOf(to).dag.vv)
        res == import_remote_changes(LogOf(to), batch, order)
    IN  /\ CanSync
        /\ VVLeq(LogOf(to).dag.vv, LogOf(from).dag.vv)
        /\ order \in Orders(DOMAIN batch)
        /\ SetLog(to, res.log)
        /\ result' = res.result
        /\ call' = [kind |-> "export_import", from |-> from, to |-> to,
                    batch |-> batch]
        /\ before' = LogOf(to)
        /\ UNCHANGED <<debug_build, ncalls, history, imported, iter>>

\* a replica imports again what it exports for one of its versions
Reimport(r, v, order) ==
    LET batch == export_changes_from(LogOf(r), v)
        res == import_remote_changes(LogOf(r), batch, order)
    IN  /\ CanSync
        /\ order \in Orders(DOMAIN batch)
        /\ SetLog(r, res.log)
        /\ result' = res.result
        /\ call' = [kind |-> "reimport", replica |-> r, version |-> v,
                    batch |-> batch]
        /\ before' = LogOf(r)
        /\ UNCHANGED <<debug_build, ncalls, history, imported, iter>>

PeerOrders == UNION {Orders(S) : S \in SUBSET Peers}

NextSync ==
    \/ CanSync /\ Cardinality(history) < MaxSyncChanges
               /\ \E r \in Replicas, len \in 1 .. MaxLen, ts \in Timestamps :
                      CommitWithin(r, len, ts, MaxSyncCounter)
    \/ CanSync /\ \E r \in Replicas : \E c \in history \ imported[r] :
                     DeliverLocal(r, c)
    \/ CanSync /\ \E from \in Replicas : \E order \in PeerOrders :
                     ExportImport(from, Other(from), order)
    \/ CanSync /\ \E r \in Replicas : \E v \in Versions(LogOf(r)) :
                     \E order \in PeerOrders : Reimport(r, v, order)

SpecSync == Init /\ [][NextSync]_vars

(***************************************************************************)
(* ContainerType and ContainerID (crates/loro-common/src/lib.rs).  A       *)
(* string is a sequence of characters.  The integers of the model stay     *)
(* below 2^31, so the parse of a u64 peer is bounded by I32Max as well;    *)
(* no peer of the model comes near either limit.                           *)
(***************************************************************************)
I32Max == 2147483647
MaxNameLen == 3

ContainerTypes == {"Map", "List", "Text"}
Bytes == 0 .. 255

\* ContainerType::to_unaligned, lines 68-74
to_unaligned(t) ==
    CASE t = "Map" -> 1
      [] t = "List" -> 2
      [] t = "Text" -> 3

\* ContainerType::from_unaligned, lines 76-83; unreachable!() is a panic
from_unaligned(unaligned) ==
    CASE unaligned = 1 -> "Map"
      [] unaligned = 2 -> "List"
      [] unaligned = 3 -> "Text"
      [] OTHER -> "Panic"

\* ContainerType::to_u8, lines 95-101
to_u8(t) ==
    CASE t = "Map" -> 1
      [] t = "List" -> 2
      [] t = "Text" -> 3

\* ContainerType::from_u8, lines 103-110; unreachable!() is a panic
from_u8(v) ==
    CASE v = 1 -> "Map"
      [] v = 2 -> "List"
      [] v = 3 -> "Text"
      [] OTHER -> "Panic"

\* Display for ContainerType, lines 130-138
ContainerTypeToString(t) ==
    CASE t = "Map" -> <<"M", "a", "p">>
      [] t = "List" -> <<"L", "i", "s", "t">>
      [] t = "Text" -> <<"T", "e", "x", "t">>

\* TryFrom<&str> for ContainerType, lines 222-235
ContainerTypeTryFrom(value) ==
    IF value = <<"M", "a", "p">> THEN [ok |-> TRUE, value |-> "Map"]
    ELSE IF value = <<"L", "i", "s", "t">> THEN [ok |-> TRUE, value |-> "List"]
    ELSE IF value = <<"T", "e", "x", "t">> THEN [ok |-> TRUE, value |-> "Text"]
    ELSE [ok |-> FALSE]

Digits == <<"0", "1", "2", "3", "4", "5", "6", "7", "8", "9">>
IsDigit(ch) == \E d \in 1 .. 10 : Digits[d] = ch
DigitValue(ch) == (CHOOSE d \in 1 .. 10 : Digits[d] = ch) - 1

\* the decimal form of a natural number
RECURSIVE ToDecimal(_)
ToDecimal(n) ==
    IF n < 10 THEN <<Digits[n + 1]>>
    ELSE ToDecimal(n \div 10) \o <<Digits[(n % 10) + 1]>>

\* Display of an integer
IntToString(n) == IF n < 0 THEN <<"-">> \o ToDecimal(0 - n) ELSE ToDecimal(n)

\* the value of a digit string, -1 when a character is no digit or the value
\* passes limit
RECURSIVE ParseDigitsFrom(_, _, _, _)
ParseDigitsFrom(s, i, acc, limit) ==
    IF i > Len(s) THEN acc
    ELSE IF ~ IsDigit(s[i]) THEN -1
    ELSE IF acc > (limit - DigitValue(s[i])) \div 10 THEN -1
    ELSE ParseDigitsFrom(s, i + 1, acc * 10 + DigitValue(s[i]), limit)

\* str::parse::<i32>(): an optional sign and at least one digit
ParseI32(s) ==
    LET signed == s # <<>> /\ s[1] \in {"+", "-"}
        digits == IF signed THEN Tail(s) ELSE s
        v == ParseDigitsFrom(digits, 1, 0, I32Max)
    IN  IF digits = <<>> \/ v < 0 THEN [ok |-> FALSE]
        ELSE [ok |-> TRUE, value |-> IF signed /\ s[1] = "-" THEN 0 - v ELSE v]

\* str::parse::<u64>(): an optional plus sign and at least one digit
ParseU64(s) ==
    LET signed == s # <<>> /\ s[1] = "+"
        digits == IF signed THEN Tail(s) ELSE s
        v == ParseDigitsFrom(digits, 1, 0, I32Max)
    IN  IF digits = <<>> \/ v < 0 THEN [ok |-> FALSE]
        ELSE [ok |-> TRUE, value |-> v]

\* str::split(sep): the parts between the separators, at least one part
RECURSIVE SplitFrom(_, _, _, _)
SplitFrom(s, sep, i, part) ==
    IF i > Len(s) THEN <<part>>
    ELSE IF s[i] = sep THEN <<part>> \o SplitFrom(s, sep, i + 1, <<>>)
    ELSE SplitFrom(s, sep, i + 1, Append(part, s[i]))

Split(s, sep) == SplitFrom(s, sep, 1, <<>>)

\* Display for ID: <counter>@<peer>
IDToString(id) == IntToString(id.counter) \o <<"@">> \o ToDecimal(id.peer)

Root(name, container_type) ==
    [kind |-> "Root", name |-> name, container_type |-> container_type]

Normal(peer, counter, container_type) ==
    [kind |-> "Normal", peer |-> peer, counter |-> counter,
     container_type |-> container_type]

\* Display for ContainerID, lines 140-159
ContainerIDToString(cid) ==
    IF cid.kind = "Root"
    THEN <<"/">> \o cid.name \o <<":">> \o ContainerTypeToString(cid.container_type)
    ELSE IDToString(NewID(cid.peer, cid.counter)) \o <<":">>
             \o ContainerTypeToString(cid.container_type)

\* TryFrom<&str> for ContainerID, lines 161-185
ContainerIDTryFrom(value) ==
    LET parts == Split(value, ":")
        id == parts[1]
    IN  IF Len(parts) < 2 THEN [ok |-> FALSE]
        ELSE LET container_type == ContainerTypeTryFrom(parts[2])
             IN  IF ~ container_type.ok THEN [ok |-> FALSE]
                 ELSE IF id # <<>> /\ id[1] = "/"
                 THEN [ok |-> TRUE, value |-> Root(Tail(id), container_type.value)]
                 ELSE LET idparts == Split(id, "@")
                          counter == ParseI32(idparts[1])
                      IN  IF ~ counter.ok \/ Len(idparts) < 2 THEN [ok |-> FALSE]
                          ELSE LET client == ParseU64(idparts[2])
                               IN  IF ~ client.ok THEN [ok |-> FALSE]
                                   ELSE [ok |-> TRUE,
                                         value |-> Normal(client.value, counter.value,
                                                          container_type.value)]

\* the inputs: root names over a small alphabet and two longer names, normal
\* ids of a few peers and counters up to i32::MAX
NameChars == {"a", ":", "/", "@", "7"}
NameInputs ==
    UNION {[1 .. n -> NameChars] : n \in 0 .. MaxNameLen}
        \cup {<<"r", "o", "o", "t">>, <<"a", ":", "M", "a", "p">>}
CidPeers == {0, 1, 42}
CidCounters == {0, 7, 10, I32Max}
ContainerIDInputs ==
    {Root(n, t) : n \in NameInputs, t \in ContainerTypes}
        \cup {Normal(p, c, t) : p \in CidPeers, c \in CidCounters, t \in ContainerTypes}

CodecCalls ==
    {[kind |-> "to_string", cid |-> c] : c \in ContainerIDInputs}
        \cup {[kind |-> k, container_type |-> t] :
                 k \in {"to_u8", "to_unaligned"}, t \in ContainerTypes}
        \cup {[kind |-> k, byte |-> b] : k \in {"from_u8", "from_unaligned"}, b \in Bytes}

NoOutput == [kind |-> "none"]

InitCodec ==
    /\ oplog = EmptyOpLog
    /\ call \in CodecCalls
    /\ before = NoOutput
    /\ result = "None"
    /\ debug_build \in BOOLEAN
    /\ ncalls = 0
    /\ peer_oplog = EmptyOpLog
    /\ history = {}
    /\ imported = [r \in Replicas |-> {}]
    /\ iter = NoIter

\* cid.to_string()
to_string ==
    /\ call.kind = "to_string"
    /\ before = NoOutput
    /\ before' = [kind |-> "text", text |-> ContainerIDToString(call.cid)]
    /\ UNCHANGED <<oplog, call, result, debug_build, ncalls, netvars>>

\* ContainerID::try_from(text)
try_from ==
    /\ before.kind = "text"
    /\ LET parsed == ContainerIDTryFrom(before.text)
       IN  /\ before' = [kind |-> "parsed", text |-> before.text, parsed |-> parsed]
           /\ result' = IF parsed.ok THEN "Ok" ELSE "Err"
    /\ UNCHANGED <<oplog, call, debug_build, ncalls, netvars>>

ToU8 ==
    /\ call.kind = "to_u8"
    /\ before = NoOutput
    /\ before' = [kind |-> "byte", byte |-> to_u8(call.container_type)]
    /\ UNCHANGED <<oplog, call, result, debug_build, ncalls, netvars>>

ToUnaligned ==
    /\ call.kind = "to_unaligned"
    /\ before = NoOutput
    /\ before' = [kind |-> "byte", byte |-> to_unaligned(call.container_type)]
    /\ UNCHANGED <<oplog, call, result, debug_build, ncalls, netvars>>

\* the byte that is decoded: the one passed in or the one just encoded
DecodedByte == IF call.kind \in {"from_u8", "from_unaligned"} THEN call.byte ELSE before.byte

FromU8 ==
    /\ call.kind = "from_u8" \/ (call.kind = "to_u8" /\ before.kind = "byte")
    /\ result = "None"
    /\ result' = from_u8(DecodedByte)
    /\ UNCHANGED <<oplog, call, before, debug_build, ncalls, netvars>>

FromUnaligned ==
    /\ call.kind = "from_unaligned" \/ (call.kind = "to_unaligned" /\ before.kind = "byte")
    /\ result = "None"
    /\ result' = from_unaligned(DecodedByte)
    /\ UNCHANGED <<oplog, call, before, debug_build, ncalls, netvars>>

NextCodec ==
    \/ to_string
    \/ try_from
    \/ ToU8
    \/ ToUnaligned
    \/ FromU8
    \/ FromUnaligned

SpecCodec == InitCodec /\ [][NextCodec]_vars

(***************************************************************************)
(* A fourth caller: changes of one atom whose deps may name the op after   *)
(* the first of a peer, an op that the log may not hold yet.               *)
(***************************************************************************)
AheadDepsInputs ==
    {<<>>} \cup {<<NewID(p, k)>> : p \in Peers, k \in 0 .. MaxAheadDepCounter}

AheadChangeInputs ==
    {[id |-> NewID(p, k), deps |-> d, lamport |-> l, timestamp |-> 0, len |-> 1] :
        p \in Peers, k \in 0 .. MaxAheadDepCounter, d \in AheadDepsInputs,
        l \in 0 .. MaxAheadDepCounter}

AheadBatchInputs == {[q \in {c.id.peer} |-> <<c>>] : c \in AheadChangeInputs}

NextAhead ==
    \/ CanCallDeep /\ \E c \in AheadChangeInputs : ImportLocalChange(c)
    \/ CanCallDeep /\ \E batch \in AheadBatchInputs :
                         \E order \in Orders(DOMAIN batch) :
                             ImportRemoteChanges(batch, order)

SpecAhead == Init /\ [][NextAhead]_vars

(***************************************************************************)
(* A fifth caller: batches that hold one change of each peer, so that the  *)
(* order in which the hash map of the batch hands out its peers matters.   *)
(***************************************************************************)
PeersChangeInputs == {c \in DeepChangeInputs : Len(c.deps) <= 1}

PeersBatchInputs ==
    {[q \in Peers |-> IF q = c.id.peer THEN <<c>> ELSE <<d>>] :
        c \in {x \in PeersChangeInputs : x.id.peer = 1},
        d \in {x \in PeersChangeInputs : x.id.peer = 2}}

NextPeers ==
    \/ CanCall /\ \E c \in PeersChangeInputs : ImportLocalChange(c)
    \/ CanCall /\ \E batch \in PeersBatchInputs : \E order \in Orders(DOMAIN batch) :
                     ImportRemoteChanges(batch, order)

SpecPeers == Init /\ [][NextPeers]_vars

(***************************************************************************)
(* Clone (lines 65-76): oplog is the original and peer_oplog its clone;    *)
(* both take local changes afterwards.  The arena holds the content of the *)
(* ops, which the model leaves out: the clone's fresh arena has no part    *)
(* in the record.                                                          *)
(***************************************************************************)
\* a clone that keeps the pending buffer
clone_keep_pending(log) == log

\* impl Clone for OpLog, lines 65-76
clone(log) ==
    [dag |-> log.dag,
     changes |-> log.changes,
     next_lamport |-> log.next_lamport,
     latest_timestamp |-> log.latest_timestamp,
     pending_changes |-> <<>>]

CloneChangeInputs ==
    {c \in DeepChangeInputs : c.lamport = 0 /\ Len(c.deps) <= 1}

CanCallClone == ~ Panicked /\ ncalls < MaxCloneCalls

\* let copy = oplog.clone()
Clone ==
    /\ peer_oplog' = clone(oplog)
    /\ call' = [kind |-> "clone"]
    /\ before' = oplog
    /\ result' = "Ok"
    /\ ncalls' = ncalls + 1
    /\ UNCHANGED <<oplog, debug_build, history, imported, iter>>

\* copy.import_local_change(c)
CloneImportLocalChange(c) ==
    /\ LET r == import_local_change(peer_oplog, c, debug_build)
       IN  /\ PendingSize(r.log) <= MaxPending
           /\ peer_oplog' = r.log
           /\ result' = r.result
    /\ call' = [kind |-> "clone.import_local_change", change |-> c]
    /\ before' = peer_oplog
    /\ ncalls' = ncalls + 1
    /\ UNCHANGED <<oplog, debug_build, history, imported, iter>>

NextClone ==
    \/ CanCallClone /\ \E c \in CloneChangeInputs : ImportLocalChange(c)
    \/ CanCallClone /\ Clone
    \/ CanCallClone /\ \E c \in CloneChangeInputs : CloneImportLocalChange(c)

SpecClone == Init /\ [][NextClone]_vars

(***************************************************************************)
(* Properties of the OpLog.                                                *)
(***************************************************************************)
IsImportLocal == call.kind = "import_local_change"
IsImportRemote == call.kind = "import_remote_changes"

\* the stored changes of every peer start at counter 0 and follow each other
ChangesContiguous(log) ==
    \A p \in DOMAIN log.changes :
        LET cs == log.changes[p]
        IN  \A i \in 1 .. Len(cs) :
                cs[i].id.counter = IF i = 1 THEN 0 ELSE CtrEnd(cs[i - 1])

\* C1: after any sequence of successful imports the changes of every peer
\* cover consecutive counters from 0, without gap or overlap.
C1_ChangesContiguous == ~ Panicked => ChangesContiguous(oplog)

\* vv[p] is the atom length of changes[p], for every peer
VvEqualsChanges(log) ==
    \A p \in (DOMAIN log.dag.vv) \cup (DOMAIN log.changes) :
        VVGet(log.dag.vv, p) = ChangesAtomLen(ChangesOf(log, p))

\* C2: after any sequence of successful imports dag.vv equals the id spans
\* of the stored changes.  It is stated for logs whose changes are contiguous,
\* so that a failure is one of the version vector and not of a gap (C1).
C2_VvEqualsChanges ==
    (~ Panicked /\ ChangesContiguous(oplog)) => VvEqualsChanges(oplog)

\* C3: after any sequence of successful imports dag.frontiers is
\* vv_to_frontiers(dag.vv): the incremental update of import_local_change
\* gives the set that the full recomputation gives.  It is stated for logs
\* whose changes are contiguous (C1) and whose DAG holds every id that
\* vv_to_frontiers looks up.
C3_FrontiersAreVvToFrontiers ==
    (/\ ~ Panicked
     /\ ChangesContiguous(oplog)
     /\ VVToFrontiersDefined(oplog.dag, oplog.dag.vv))
        => oplog.dag.frontiers = VVToFrontiers(oplog.dag, oplog.dag.vv)

\* some peer's first change in the batch starts after what the log has seen
BatchStartsAhead(log, batch) ==
    \E p \in DOMAIN batch :
        /\ batch[p] # <<>>
        /\ batch[p][1].id.counter > VVGet(log.dag.vv, p)

\* C4: import_remote_changes fails with "Changes are not appliable yet" and
\* leaves the OpLog unchanged whenever the first change of some peer in the
\* batch has a counter greater than vv[peer], an unseen peer reading as 0.
C4_RemotePreflightRejects ==
    (IsImportRemote /\ BatchStartsAhead(before, call.batch))
        => (result = "NotAppliable" /\ oplog = before)

\* C5: import_local_change(c) returns UsedOpID exactly when
\* dag.vv[c.id.peer] > c.id.counter, and then the OpLog is as before the call.
C5_UsedOpIDExactly ==
    IsImportLocal =>
        /\ (result = "UsedOpID") <=>
               (VVGet(before.dag.vv, call.change.id.peer) > call.change.id.counter)
        /\ (result = "UsedOpID") => (oplog = before)

C5_Witness ==
    /\ IsImportLocal
    /\ result = "UsedOpID"
    /\ VVGet(before.dag.vv, call.change.id.peer) > call.change.id.counter
    /\ before.changes # <<>>

\* the deps of c that the version vector of the log does not include
MissingDeps(log, c) ==
    {i \in 1 .. Len(c.deps) : ~ IncludesId(log.dag.vv, c.deps[i])}
FirstMissingDep(log, c) ==
    c.deps[CHOOSE i \in MissingDeps(log, c) : \A j \in MissingDeps(log, c) : i <= j]

\* C6: when import_local_change(c) passes the duplicate check and some dep of
\* c is not in dag.vv, the call fails with the missing-dep error, c is
\* appended to pending[d] for the first such dep d, and nothing else changes.
C6_MissingDepBuffered ==
    (/\ IsImportLocal
     /\ ~ (VVGet(before.dag.vv, call.change.id.peer) > call.change.id.counter)
     /\ MissingDeps(before, call.change) # {})
        => LET d == FirstMissingDep(before, call.change)
           IN  /\ result = "MissingDep"
               /\ oplog.dag = before.dag
               /\ oplog.changes = before.changes
               /\ oplog.next_lamport = before.next_lamport
               /\ oplog.latest_timestamp = before.latest_timestamp
               /\ DOMAIN oplog.pending_changes =
                      DOMAIN before.pending_changes \cup {d}
               /\ \A k \in DOMAIN oplog.pending_changes :
                      oplog.pending_changes[k] =
                          IF k = d THEN Append(PendingOf(before, d), call.change)
                          ELSE before.pending_changes[k]

\* a change with two missing deps is buffered, and so is one whose first
\* dep is known and whose second is missing
C6_Witness ==
    /\ IsImportLocal
    /\ result = "MissingDep"
    /\ Len(call.change.deps) = 2
    /\ IncludesId(before.dag.vv, call.change.deps[1])
    /\ call.change \in SeqToSet(PendingOf(oplog, call.change.deps[2]))

\* C7: no call of import_local_change or import_remote_changes panics: the
\* DAG-extension branch never meets a missing or empty node list or a failed
\* assert_eq.
C7_NoPanic == result # "Panic"

\* C8: after a successful import pending has no key that dag.vv includes:
\* the changes buffered under an id are drained once the id is in the log.
C8_PendingDrained ==
    result = "Ok" =>
        \A d \in DOMAIN oplog.pending_changes : ~ IncludesId(oplog.dag.vv, d)

\* the atoms of the stored changes of a peer
OpsOf(log, p) ==
    UNION {{[id |-> NewID(p, c.id.counter + k), lamport |-> c.lamport + k,
             timestamp |-> c.timestamp] : k \in 0 .. c.len - 1} :
              c \in SeqToSet(ChangesOf(log, p))}

\* the counters of a peer that the DAG nodes cover
DagCoverage(log, p) ==
    UNION {n.cnt .. n.cnt + n.len - 1 : n \in SeqToSet(NodesOf(log.dag, p))}

SameLogs(x, y) ==
    /\ \A p \in Peers :
           /\ VVGet(x.dag.vv, p) = VVGet(y.dag.vv, p)
           /\ OpsOf(x, p) = OpsOf(y, p)
           /\ DagCoverage(x, p) = DagCoverage(y, p)
    /\ x.dag.frontiers = y.dag.frontiers

\* C9: two OpLogs that have successfully imported the same set of changes,
\* in any admissible order and any grouping into local imports and remote
\* batches, have the same vv, frontiers, ops per peer and DAG coverage.
C9_Convergence ==
    (~ Panicked /\ imported["a"] = imported["b"]) => SameLogs(oplog, peer_oplog)

\* both replicas hold concurrent changes of both peers, which reached them
\* in different orders
C9_Witness ==
    /\ ~ Panicked
    /\ imported["a"] = imported["b"]
    /\ Cardinality(oplog.dag.frontiers) = 2
    /\ \E c \in imported["a"] : c.id.peer = 1 /\ c.id.counter > 0
    /\ SameLogs(oplog, peer_oplog)

\* the ids of the changes the iterator yielded
YieldedIds(out) ==
    UNION {{NewID(out[i].id.peer, c) : c \in out[i].id.counter .. CtrEnd(out[i]) - 1} :
              i \in 1 .. Len(out)}

\* change x depends on change y: a dep of x is in y, or y is an earlier
\* change of the peer of x
DependsOn(x, y) ==
    \/ \E i \in 1 .. Len(x.deps) :
           /\ x.deps[i].peer = y.id.peer
           /\ y.id.counter <= x.deps[i].counter
           /\ x.deps[i].counter < CtrEnd(y)
    \/ x.id.peer = y.id.peer /\ y.id.counter < x.id.counter

\* C10: for versions from and to of the log, iter_from_lca_causally ends,
\* yields each change at most once, in an order of rising lamport in which no
\* change comes before one it depends on, and the spans of the yielded
\* changes are lca_vv.diff(merged_vv).right.
C10_IterFromLca ==
    iter.kind = "iter_from_lca_causally" =>
        LET out == iter.run.out
        IN  /\ ~ iter.run.running
            /\ ~ iter.run.panic
            /\ \A i, j \in 1 .. Len(out) : i < j =>
                   /\ out[i] # out[j]
                   /\ out[i].lamport <= out[j].lamport
                   /\ ~ DependsOn(out[i], out[j])
            /\ YieldedIds(out) = SpanIds(iter.run.diff)

\* the ids a reader may look up
LookupIds == {NewID(p, c) : p \in Peers, c \in 0 .. MaxCounter + MaxLen}

\* C11: lookup_change(id) returns Some(c) exactly when dag.vv includes id,
\* the returned c is of the peer of id and holds its counter, and the id one
\* past the end of a peer's changes gives None.
C11_LookupChange ==
    ~ Panicked =>
        \A id \in LookupIds :
            LET r == lookup_change(oplog, id)
            IN  /\ (r.kind = "Some") <=> IncludesId(oplog.dag.vv, id)
                /\ r.kind = "Some" =>
                       /\ r.change.id.peer = id.peer
                       /\ r.change.id.counter <= id.counter
                       /\ id.counter < CtrEnd(r.change)
                /\ id.counter = ChangesAtomLen(ChangesOf(oplog, id.peer)) =>
                       r.kind = "None"

\* C12: when replica to holds the changes of its version a and a is within
\* the version of replica from, importing export_changes_from(a) of from
\* succeeds and leaves to with the version vector of from.
C12_ExportImportRoundTrip ==
    call.kind = "export_import" =>
        /\ result = "Ok"
        /\ \A p \in Peers :
               VVGet(LogOf(call.to).dag.vv, p) = VVGet(LogOf(call.from).dag.vv, p)

AllNodes(log) == UNION {SeqToSet(log.dag.map[p]) : p \in DOMAIN log.dag.map}

\* C14: for every DAG node n and every id d in n.deps, n.vv includes d, d is
\* an op of the log, and the lamport of d is less than n.lamport.  It is
\* stated for a debug build, where import_local_change asserts the lamport
\* of the change, so that a failure is one of import_remote_changes.
C14_NodeDepsKnownAndOlder ==
    (debug_build /\ ~ Panicked) =>
        \A n \in AllNodes(oplog) : \A i \in 1 .. Len(n.deps) :
            /\ IncludesId(n.vv, n.deps[i])
            /\ IncludesId(oplog.dag.vv, n.deps[i])
            /\ DagHolds(oplog.dag, n.deps[i])
            /\ IdToLamport(oplog.dag, n.deps[i]) < n.lamport

\* the stored changes of a log
AllChanges(log) == UNION {SeqToSet(log.changes[p]) : p \in DOMAIN log.changes}

\* C15: next_lamport is greater than the lamport of every stored op:
\* next_lamport >= 1 + (lamport + atom_len - 1) for every stored change,
\* also after a remote batch.
C15_NextLamportAboveAll ==
    ~ Panicked => \A c \in AllChanges(oplog) : oplog.next_lamport >= LamportEnd(c)

\* the stored changes of peer p follow each other: each one after the first
\* has the last id of the one before as its only dep
SelfChain(log, p) ==
    LET cs == ChangesOf(log, p)
    IN  \A i \in 2 .. Len(cs) : cs[i].deps = <<IdLast(cs[i - 1])>>

\* C16: when each change of a peer after the first has the last id of the
\* previous change as its only dep, the DAG holds one node for the peer,
\* with cnt and lamport of the first change and the total length.
C16_SelfChainOneNode ==
    ~ Panicked =>
        \A r \in Replicas : \A p \in DOMAIN LogOf(r).changes :
            SelfChain(LogOf(r), p) =>
                LET cs == LogOf(r).changes[p]
                    ns == NodesOf(LogOf(r).dag, p)
                IN  /\ Len(ns) = 1
                    /\ ns[1].cnt = cs[1].id.counter
                    /\ ns[1].lamport = cs[1].lamport
                    /\ ns[1].len = ChangesAtomLen(cs)

\* a peer has committed three changes in a chain, stored as two changes or
\* more, and a replica holds them in one node
C16_Witness ==
    \E r \in Replicas : \E p \in DOMAIN LogOf(r).changes :
        /\ ~ Panicked
        /\ SelfChain(LogOf(r), p)
        /\ Len(LogOf(r).changes[p]) >= 2
        /\ Len(NodesOf(LogOf(r).dag, p)) = 1
        /\ NodesOf(LogOf(r).dag, p)[1].len = 3
        /\ LogOf(r).dag.frontiers = {NewID(p, 2)}
        /\ LogOf(r).next_lamport = 3

\* C17: the string form of a ContainerID parses back to the same
\* ContainerID, for a root of any name and a normal id of any peer and
\* counter; "/root:Text" and "7@42:Map" are the forms of the two examples.
C17_ContainerIDRoundTrip ==
    /\ (call.kind = "to_string" /\ before.kind = "parsed") =>
           before.parsed = [ok |-> TRUE, value |-> call.cid]
    /\ (call.kind = "to_string" /\ before.kind \in {"text", "parsed"}) =>
           /\ call.cid = Root(<<"r", "o", "o", "t">>, "Text") =>
                  before.text = <<"/", "r", "o", "o", "t", ":", "T", "e", "x", "t">>
           /\ call.cid = Normal(42, 7, "Map") =>
                  before.text = <<"7", "@", "4", "2", ":", "M", "a", "p">>

\* C18: Map, List and Text are the bytes 1, 2 and 3, a byte decodes back to
\* its type, and any other byte decodes to an error, never to a panic or a
\* type.
C18_ContainerTypeBytes ==
    /\ (call.kind \in {"to_u8", "to_unaligned"} /\ before.kind = "byte") =>
           /\ before.byte = (CASE call.container_type = "Map" -> 1
                               [] call.container_type = "List" -> 2
                               [] call.container_type = "Text" -> 3)
           /\ result # "None" => result = call.container_type
    /\ (call.kind \in {"from_u8", "from_unaligned"} /\ call.byte \notin {1, 2, 3}
            /\ result # "None") =>
           result = "DecodeError"

CausalStep(log, vv) ==
    LET RECURSIVE IncludeDeps(_, _)
        IncludeDeps(f, v) ==
            IF f = <<>> THEN v
            ELSE IncludeDeps(Tail(f), ExtendToIncludeLastId(v, Head(f)))
        RECURSIVE IncludeChanges(_, _, _)
        IncludeChanges(cs, i, v) ==
            IF i > Len(cs) THEN v
            ELSE IF cs[i].id.counter < VVGet(vv, cs[i].id.peer)
                 THEN IncludeChanges(cs, i + 1, IncludeDeps(cs[i].deps, v))
                 ELSE IncludeChanges(cs, i + 1, v)
        RECURSIVE IncludePeers(_, _)
        IncludePeers(S, v) ==
            IF S = {} THEN v
            ELSE LET p == CHOOSE x \in S : TRUE
                 IN  IncludePeers(S \ {p}, IncludeChanges(log.changes[p], 1, v))
    IN  IncludePeers(DOMAIN log.changes, vv)

\* the ops that id depends on, as a version: id itself and everything its
\* change and the earlier ops of its peer name as deps, transitively
RECURSIVE CausalClosure(_, _)
CausalClosure(log, vv) ==
    LET next == CausalStep(log, vv)
    IN  IF \A p \in Peers : VVGet(next, p) = VVGet(vv, p) THEN vv
        ELSE CausalClosure(log, next)

\* x is a causal ancestor of y
IsAncestor(log, x, y) ==
    x # y /\ IncludesId(CausalClosure(log, ExtendToIncludeLastId(EmptyVV, y)), x)

LocalOk == IsImportLocal /\ result = "Ok"

\* C20: after a successful import_local_change(c) the frontiers contain
\* c.id_last, no id of c.deps, at most one id per peer and no id that is a
\* causal ancestor of another; the ids of other peers that are not in c.deps
\* are kept.
C20_FrontiersAfterLocalImport ==
    LocalOk =>
        LET c == call.change
            f == oplog.dag.frontiers
        IN  /\ IdLast(c) \in f
            /\ \A i \in 1 .. Len(c.deps) : c.deps[i] \notin f
            /\ \A x, y \in f : x.peer = y.peer => x = y
            /\ \A x, y \in f : ~ IsAncestor(oplog, x, y)
            /\ \A x \in before.dag.frontiers :
                   (x.peer # c.id.peer /\ x \notin SeqToSet(c.deps)) => x \in f

\* the changes of the batch in the order in which lines 425-451 apply them
AppliedOrder(log, batch, order) == SortByLamport(Collect(log, batch, order, <<>>).arr)

\* (lamport, peer, counter) of x is at most that of y
CausalKeyLeq(x, y) ==
    \/ x.lamport < y.lamport
    \/ /\ x.lamport = y.lamport
       /\ \/ x.id.peer < y.id.peer
          \/ x.id.peer = y.id.peer /\ x.id.counter <= y.id.counter

\* C21: import_remote_changes applies the changes it does not truncate in
\* the order of (lamport, peer, counter), every change after the changes of
\* the batch it depends on, and the log that results is the same for every
\* order in which the map of the batch hands out its peers.
C21_RemoteOrderIndependent ==
    IsImportRemote =>
        LET arr == AppliedOrder(before, call.batch, call.order)
        IN  /\ \A i, j \in 1 .. Len(arr) : i < j => CausalKeyLeq(arr[i], arr[j])
            /\ \A i, j \in 1 .. Len(arr) : DependsOn(arr[i], arr[j]) => j < i
            /\ \A o \in Orders(DOMAIN call.batch) :
                   LET r == import_remote_changes(before, call.batch, o)
                   IN  r.result = result /\ r.log = oplog

\* the nodes of peer p start at 0, follow each other and end at vv[p]
NodesContiguous(log, p) ==
    LET ns == NodesOf(log.dag, p)
    IN  /\ \A i \in 1 .. Len(ns) :
               ns[i].cnt = IF i = 1 THEN 0 ELSE ns[i - 1].cnt + ns[i - 1].len
        /\ VVGet(log.dag.vv, p) = IF ns = <<>> THEN 0
                                  ELSE ns[Len(ns)].cnt + ns[Len(ns)].len

\* C22: after any sequence of successful imports the nodes of every peer are
\* ordered by cnt, contiguous from 0 and end at vv[p], and they cover the
\* counters that the stored changes of the peer cover.
C22_VvEqualsDagNodes ==
    ~ Panicked =>
        \A p \in Peers :
            /\ NodesContiguous(oplog, p)
            /\ DagCoverage(oplog, p) = {o.id.counter : o \in OpsOf(oplog, p)}

\* the versions a caller may pass to export_changes_from
ExportVersions == UNION {[S -> 0 .. MaxCounter + MaxLen] : S \in SUBSET Peers}

\* what C23 says of export_changes_from(from) on one log
ExportCovers(log, from) ==
    LET out == export_changes_from(log, from)
    IN  \A p \in Peers :
            IF VVGet(log.dag.vv, p) > VVGet(from, p)
            THEN /\ p \in DOMAIN out
                 /\ out[p] # <<>>
                 /\ \A i \in 1 .. Len(out[p]) - 1 :
                        out[p][i].id.counter < out[p][i + 1].id.counter
                 /\ \A k \in VVGet(from, p) .. VVGet(log.dag.vv, p) - 1 :
                        \E i \in 1 .. Len(out[p]) :
                            out[p][i].id.counter <= k /\ k < CtrEnd(out[p][i])
                 /\ \A i \in 1 .. Len(out[p]) :
                        \E j \in 1 .. Len(ChangesOf(log, p)) :
                            /\ out[p][i].id = log.changes[p][j].id
                            /\ out[p][i].deps = log.changes[p][j].deps
                            /\ out[p][i].lamport = log.changes[p][j].lamport
                            /\ out[p][i].timestamp = log.changes[p][j].timestamp
            ELSE p \notin DOMAIN out

\* C23: export_changes_from(from) returns, for every peer that the log has
\* ahead of from, a non-empty list of stored changes in counter order that
\* covers every counter in [from[p], vv[p]), and no list for any other peer.
C23_ExportCovers ==
    ~ Panicked =>
        \A r \in Replicas : \A from \in ExportVersions : ExportCovers(LogOf(r), from)

\* the stored changes of peer p that hold a counter in [lo, hi), in the order
\* in which they are stored
RECURSIVE ChangesWithin(_, _, _)
ChangesWithin(cs, lo, hi) ==
    IF cs = <<>> THEN <<>>
    ELSE IF \E k \in Head(cs).id.counter .. CtrEnd(Head(cs)) - 1 : lo <= k /\ k < hi
         THEN <<Head(cs)>> \o ChangesWithin(Tail(cs), lo, hi)
         ELSE ChangesWithin(Tail(cs), lo, hi)

\* C24: for_each_change_within(a, b, f) calls f, peer by peer, on the stored
\* changes that hold a counter in [min(a[p], b[p]), max(a[p], b[p])), once
\* each and in counter order, and on no other change; (b, a) visits what
\* (a, b) visits, and a peer with a[p] = b[p] has no change visited.
C24_ForEachChangeWithin ==
    ~ Panicked =>
        \A a, b \in ExportVersions :
            LET visited == for_each_change_within(oplog, a, b)
            IN  /\ \A p \in DOMAIN oplog.changes :
                       visited[p] = ChangesWithin(oplog.changes[p],
                                                  Min(VVGet(a, p), VVGet(b, p)),
                                                  Max(VVGet(a, p), VVGet(b, p)))
                /\ visited = for_each_change_within(oplog, b, a)

IterDone == iter.kind = "iter_from_lca_causally" /\ ~ iter.run.panic /\ ~ iter.run.running

\* C25: the version vector yielded with a change is the version just before
\* the change: it includes the deps of the change and the ops of its peer
\* below its counter, no op of the change, and only ops of the lca version
\* or of changes yielded before.
C25_VvAtEntry ==
    IterDone =>
        \A i \in 1 .. Len(iter.run.out) :
            LET c == iter.run.out[i]
                v == iter.run.vvs[i]
            IN  /\ \A k \in 1 .. Len(c.deps) : IncludesId(v, c.deps[k])
                /\ VVGet(v, c.id.peer) = c.id.counter
                /\ \A p \in DOMAIN v : \A k \in 0 .. v[p] - 1 :
                       \/ k < VVGet(iter.run.lca_vv, p)
                       \/ NewID(p, k) \in YieldedIds(SubSeq(iter.run.out, 1, i - 1))


\* the iterator has yielded a change that depends on a change of the other
\* peer, after another change, and a change that is not the first of its peer
C25_Witness ==
    /\ IterDone
    /\ \E i \in 2 .. Len(iter.run.out) :
           LET c == iter.run.out[i]
           IN  /\ c.deps # <<>>
               /\ c.deps[1].peer # c.id.peer
               /\ IncludesId(iter.run.vvs[i], c.deps[1])
    /\ \E j \in 1 .. Len(iter.run.out) : iter.run.out[j].id.counter > 0

\* C26: every DAG node is a self-chain: a stored change that starts inside a
\* node, after the start of the node, has the op before it as its only dep;
\* a change whose single dep is an older or a later op of its own peer does
\* not extend the last node.
C26_NodesAreSelfChains ==
    ~ Panicked =>
        /\ \A p \in DOMAIN oplog.changes :
               \A i \in 1 .. Len(NodesOf(oplog.dag, p)) :
                   \A j \in 1 .. Len(oplog.changes[p]) :
                       LET n == oplog.dag.map[p][i]
                           c == oplog.changes[p][j]
                       IN  (n.cnt < c.id.counter /\ c.id.counter < n.cnt + n.len)
                               => c.deps = <<NewID(p, c.id.counter - 1)>>
        /\ (/\ IsImportLocal
            /\ result = "Ok"
            /\ Len(call.change.deps) = 1
            /\ call.change.deps[1].peer = call.change.id.peer
            /\ call.change.deps[1].counter # call.change.id.counter - 1)
               => Len(NodesOf(oplog.dag, call.change.id.peer))
                      = Len(NodesOf(before.dag, call.change.id.peer)) + 1

\* C27: get_change_at(id) agrees with lookup_change(id): it returns Some(c)
\* only if dag.vv includes id and c holds id, and None otherwise, also for
\* the id one past the end of a peer's changes.
C27_GetChangeAt ==
    ~ Panicked =>
        \A id \in LookupIds :
            LET r == get_change_at(oplog, id)
            IN  /\ r = lookup_change(oplog, id)
                /\ r.kind = "Some" =>
                       /\ IncludesId(oplog.dag.vv, id)
                       /\ r.change.id.counter <= id.counter
                       /\ id.counter < CtrEnd(r.change)
                /\ id.counter = ChangesAtomLen(ChangesOf(oplog, id.peer)) =>
                       r.kind = "None"

\* every stored change of log x is still stored in log y, at its place, with
\* its id, deps and lamport, and its length has not shrunk
ChangesKept(x, y) ==
    \A p \in DOMAIN x.changes :
        /\ p \in DOMAIN y.changes
        /\ Len(x.changes[p]) <= Len(y.changes[p])
        /\ \A j \in 1 .. Len(x.changes[p]) :
               /\ y.changes[p][j].id = x.changes[p][j].id
               /\ y.changes[p][j].deps = x.changes[p][j].deps
               /\ y.changes[p][j].lamport = x.changes[p][j].lamport
               /\ y.changes[p][j].len >= x.changes[p][j].len

\* C28: across a call of import_local_change or import_remote_changes,
\* successful or failed, no vv[p] decreases, next_lamport and
\* latest_timestamp do not decrease, no stored change is removed or altered,
\* and next_id(p).counter is vv[p].
C28_ClocksOnlyGrow ==
    /\ (IsImportLocal \/ IsImportRemote) =>
           /\ \A p \in Peers : VVGet(before.dag.vv, p) <= VVGet(oplog.dag.vv, p)
           /\ before.next_lamport <= oplog.next_lamport
           /\ before.latest_timestamp <= oplog.latest_timestamp
           /\ ChangesKept(before, oplog)
    /\ \A p \in Peers :
           /\ next_id(oplog, p).peer = p
           /\ next_id(oplog, p).counter =
                  IF p \in DOMAIN oplog.dag.vv THEN oplog.dag.vv[p] ELSE 0

\* a local import and a remote import that stored a change after others and
\* raised the clocks
C28_Witness ==
    /\ IsImportRemote
    /\ result = "Ok"
    /\ before.changes # <<>>
    /\ oplog.changes # before.changes
    /\ before.next_lamport < oplog.next_lamport
    /\ \E p \in Peers : 0 < VVGet(before.dag.vv, p)
                           /\ VVGet(before.dag.vv, p) < VVGet(oplog.dag.vv, p)

====
